---- MODULE Spec2Model ----
(***************************************************************************)
(* Model of the YouTube Content Optimizer front end:                       *)
(*   - parseSections          (src/components/UI.tsx, utils/parser part)   *)
(*   - the required-section checklist of App                               *)
(*   - the "Metadata JSON" check of SectionCard                            *)
(*   - the App state machine (submit / clear / edit / request completion)  *)
(* Strings are sequences of one-character strings.                         *)
(***************************************************************************)
EXTENDS Integers, Sequences, FiniteSets, TLC

VARIABLES
    text,        \* the `result` string handed to parseSections / checklist
    doc,         \* structure the text was rendered from (SpecDoc only)
    required,    \* REQUIRED_SECTIONS
    sections,    \* value returned by parseSections
    checklist,   \* value of the checklist memo
    pc,          \* which calls have returned
    section,     \* the Section handed to SectionCard
    src,         \* what section.content was written from (SpecMeta only)
    meta,        \* SectionCard's isMeta and metaError
    rawScript,   \* App state: the script in the textarea
    result,      \* App state: the response text, or Null
    isLoading,   \* App state
    error,       \* App state: the error message, or Null
    storage,     \* localStorage: keys yco_script_en and yco_result_en
    inflight,    \* the calls of analyzeScript that have not settled
    lastEvent,   \* the handler that ran last, and the way it returned
    lastOutcome, \* how the last request settled; none after a submit or clear
    cleared      \* clearAll ran and no later submit has succeeded since

pvars == <<text, doc, required, sections, checklist, pc>>
mvars == <<section, src, meta>>
avars == <<rawScript, result, isLoading, error, storage, inflight, lastEvent,
           lastOutcome, cleared>>

Null == <<"null">>

\* ---------------------------------------------------------------------
\* Bounds
\* ---------------------------------------------------------------------
MaxLen == 6
MaxHeadings == 2

\* ---------------------------------------------------------------------
\* JavaScript string primitives
\* ---------------------------------------------------------------------
Hashes == <<"#", "#", "#">>
Marker == <<"#", "#", "#", " ">>
Overview == <<"O", "v", "e", "r", "v", "i", "e", "w">>
SectionPrefix == <<"S", "e", "c", "t", "i", "o", "n", " ">>

\* the characters String.prototype.trim strips and the regex class \s matches
IsWs(c) == c \in {" ", "\t", "\n", "\r"}

Min(a, b) == IF a < b THEN a ELSE b
Max(a, b) == IF a > b THEN a ELSE b

RECURSIVE TrimStart(_)
TrimStart(s) ==
    IF s = <<>> THEN <<>>
    ELSE IF IsWs(Head(s)) THEN TrimStart(Tail(s)) ELSE s

RECURSIVE TrimEnd(_)
TrimEnd(s) ==
    IF s = <<>> THEN <<>>
    ELSE IF IsWs(s[Len(s)]) THEN TrimEnd(SubSeq(s, 1, Len(s) - 1)) ELSE s

RECURSIVE StripSpaces(_)
StripSpaces(s) ==
    IF s = <<>> THEN <<>>
    ELSE IF Head(s) = " " THEN StripSpaces(Tail(s))
    ELSE IF s[Len(s)] = " " THEN StripSpaces(SubSeq(s, 1, Len(s) - 1))
    ELSE s

\* a trim that strips spaces only
TrimSpacesOnly(s) == StripSpaces(s)

Trim(s) == TrimEnd(TrimStart(s))

\* s.startsWith(p)
StartsWith(s, p) == Len(s) >= Len(p) /\ SubSeq(s, 1, Len(p)) = p

\* s.substring(a, b) with 0-based indices: clamps both, swaps when a > b
Substring(s, a, b) ==
    LET ca == Max(0, Min(a, Len(s)))
        cb == Max(0, Min(b, Len(s)))
    IN  SubSeq(s, Min(ca, cb) + 1, Max(ca, cb))

\* s.indexOf(c): 0-based position of the first c, -1 when there is none
IndexOf(s, c) ==
    IF \E i \in 1..Len(s) : s[i] = c
    THEN (CHOOSE i \in 1..Len(s) : s[i] = c /\ \A j \in 1..(i - 1) : s[j] # c) - 1
    ELSE -1

\* s.lastIndexOf(c)
LastIndexOf(s, c) ==
    IF \E i \in 1..Len(s) : s[i] = c
    THEN (CHOOSE i \in 1..Len(s) : s[i] = c /\ \A j \in (i + 1)..Len(s) : s[j] # c) - 1
    ELSE -1

\* result.replace(/\r\n?/g, "\n")
RECURSIVE NormalizeNewlines(_)
NormalizeNewlines(s) ==
    IF s = <<>> THEN <<>>
    ELSE IF Head(s) = "\r"
         THEN IF Len(s) >= 2 /\ s[2] = "\n"
              THEN <<"\n">> \o NormalizeNewlines(SubSeq(s, 3, Len(s)))
              ELSE <<"\n">> \o NormalizeNewlines(Tail(s))
         ELSE <<Head(s)>> \o NormalizeNewlines(Tail(s))

\* the regex /\n(?=###\s)/ matches at 1-based position i of s
SplitMatch(s, i) ==
    /\ i + 4 <= Len(s)
    /\ s[i] = "\n"
    /\ SubSeq(s, i + 1, i + 3) = Hashes
    /\ IsWs(s[i + 4])

\* text.split(/\n(?=###\s)/g): cur is the chunk being collected
RECURSIVE SplitFrom(_, _, _)
SplitFrom(s, i, cur) ==
    IF i > Len(s) THEN <<cur>>
    ELSE IF SplitMatch(s, i) THEN <<cur>> \o SplitFrom(s, i + 1, <<>>)
    ELSE SplitFrom(s, i + 1, Append(cur, s[i]))

SplitParts(s) == SplitFrom(s, 1, <<>>)

\* String(n) for a natural number
RECURSIVE NumberToString(_)
NumberToString(n) ==
    LET d == <<"0", "1", "2", "3", "4", "5", "6", "7", "8", "9">>
    IN  IF n < 10 THEN <<d[n + 1]>> ELSE NumberToString(n \div 10) \o <<d[(n % 10) + 1]>>

\* `Section ${n}`
Placeholder(n) == SectionPrefix \o NumberToString(n)

\* ---------------------------------------------------------------------
\* parseSections
\* ---------------------------------------------------------------------
\* body of the forEach callback: the sections array after handling chunk
PushChunk(acc, chunk, idx) ==
    IF StartsWith(chunk, Marker)
    THEN LET nl == IndexOf(chunk, "\n")
             title == Trim(Substring(chunk, 4, IF nl > -1 THEN nl ELSE Len(chunk)))
             content == IF nl > -1 THEN Trim(Substring(chunk, nl + 1, Len(chunk)))
                        ELSE <<>>
         IN  Append(acc, [title |-> IF title # <<>> THEN title
                                    ELSE Placeholder(idx + 1),
                          content |-> content])
    ELSE IF Trim(chunk) # <<>>
         THEN Append(acc, [title |-> Overview, content |-> Trim(chunk)])
         ELSE acc

RECURSIVE ForEachChunk(_, _, _)
ForEachChunk(parts, k, acc) ==
    IF k > Len(parts) THEN acc
    ELSE ForEachChunk(parts, k + 1, PushChunk(acc, parts[k], k - 1))

parseSections(res) ==
    IF Trim(res) = <<>> THEN <<>>
    ELSE LET parts == SplitParts(NormalizeNewlines(res))
             pushed == ForEachChunk(parts, 1, <<>>)
         IN  SelectSeq(pushed, LAMBDA s : s.title # <<>> \/ s.content # <<>>)

\* ---------------------------------------------------------------------
\* The required-section checklist of App
\* ---------------------------------------------------------------------
UpperCase == <<"A", "B", "C", "D", "E", "F", "G", "H", "I", "J", "K", "L", "M",
               "N", "O", "P", "Q", "R", "S", "T", "U", "V", "W", "X", "Y", "Z">>
LowerCase == <<"a", "b", "c", "d", "e", "f", "g", "h", "i", "j", "k", "l", "m",
               "n", "o", "p", "q", "r", "s", "t", "u", "v", "w", "x", "y", "z">>

LowerChar(c) ==
    IF \E i \in 1..26 : UpperCase[i] = c
    THEN LowerCase[CHOOSE i \in 1..26 : UpperCase[i] = c]
    ELSE c

\* s.toLowerCase()
ToLowerCase(s) == [i \in 1..Len(s) |-> LowerChar(s[i])]

\* parseSections(result).map(s => s.title.trim().toLowerCase())
FoundTitles(res) ==
    LET ps == parseSections(res)
    IN  [k \in 1..Len(ps) |-> ToLowerCase(Trim(ps[k].title))]

\* found.includes(x)
Includes(found, x) == \E k \in 1..Len(found) : found[k] = x

\* a checklist comparing the required name as written
ChecklistCaseSensitive(res, req) ==
    IF res = Null \/ res = <<>> THEN <<>>
    ELSE [i \in 1..Len(req) |->
            [name |-> req[i], ok |-> Includes(FoundTitles(res), req[i])]]

\* the checklist memo: [] when result is null or "", else one entry per name
Checklist(res, req) ==
    IF res = Null \/ res = <<>> THEN <<>>
    ELSE [i \in 1..Len(req) |->
            [name |-> req[i], ok |-> Includes(FoundTitles(res), ToLowerCase(req[i]))]]

\* ---------------------------------------------------------------------
\* SectionCard: the "Metadata JSON" check
\* The content of a section is a sequence of tokens [k, v]: punctuation and
\* text have v = "", a member "k": v of a JSON object carries both.
\* ---------------------------------------------------------------------
Tok(k) == [k |-> k, v |-> ""]
LBrace == Tok("{")
RBrace == Tok("}")
Comma == Tok(",")
\* the three backticks of a code fence
Fence == Tok("fence")
JsonWord == Tok("json")
NL == Tok("\n")
Junk == Tok("text")

RequiredFields ==
    <<"title", "description", "tags", "defaultLanguage", "defaultAudioLanguage",
      "categoryId">>

FieldNames == {RequiredFields[i] : i \in 1..Len(RequiredFields)}

Member(k, v) == [k |-> k, v |-> v]
IsMember(t) == t.k \in FieldNames

MetadataJsonTitle ==
    <<"m", "e", "t", "a", "d", "a", "t", "a", " ", "j", "s", "o", "n">>

CouldNotFindMessage == <<"Could not find JSON object.">>
AudioLanguageMessage == <<"defaultAudioLanguage must be 'en-US'">>
LanguageMessage == <<"defaultLanguage must be 'en'">>
MissingFieldMessage(k) == <<"Missing field: ", k>>
InvalidJsonMessage == <<"Invalid JSON">>
SyntaxErrorMessage == <<"SyntaxError: Unexpected token in JSON">>

\* content.replace(/FENCEjson\n?|\n?FENCE/g, ''), FENCE being three backticks
RECURSIVE StripFences(_)
StripFences(c) ==
    IF c = <<>> THEN <<>>
    ELSE IF c[1] = Fence /\ Len(c) >= 2 /\ c[2] = JsonWord
         THEN IF Len(c) >= 3 /\ c[3] = NL
              THEN StripFences(SubSeq(c, 4, Len(c)))
              ELSE StripFences(SubSeq(c, 3, Len(c)))
    ELSE IF c[1] = NL /\ Len(c) >= 2 /\ c[2] = Fence
         THEN StripFences(SubSeq(c, 3, Len(c)))
    ELSE IF c[1] = Fence
         THEN StripFences(Tail(c))
    ELSE <<c[1]>> \o StripFences(Tail(c))

\* .trim() of a token sequence: NL is the only blank token
RECURSIVE TrimTokens(_)
TrimTokens(c) ==
    IF c = <<>> THEN <<>>
    ELSE IF c[1] = NL THEN TrimTokens(Tail(c))
    ELSE IF c[Len(c)] = NL THEN TrimTokens(SubSeq(c, 1, Len(c) - 1))
    ELSE c

\* s.slice(a, b) for 0 <= a, 0 <= b: empty when a >= b
Slice(s, a, b) == SubSeq(s, a + 1, Min(b, Len(s)))

\* JSON.parse(raw): an object "{" member ("," member)* "}" with blanks
\* anywhere between tokens, a SyntaxError otherwise; a repeated key keeps
\* its last value
JsonParse(raw) ==
    LET body == SelectSeq(raw, LAMBDA t : t # NL)
        inner == SubSeq(body, 2, Len(body) - 1)
        wellFormed ==
            /\ Len(body) >= 2
            /\ body[1] = LBrace
            /\ body[Len(body)] = RBrace
            /\ \/ inner = <<>>
               \/ /\ Len(inner) % 2 = 1
                  /\ \A i \in 1..Len(inner) :
                        IF i % 2 = 1 THEN IsMember(inner[i]) ELSE inner[i] = Comma
        keys == {inner[i].k : i \in {j \in 1..Len(inner) : j % 2 = 1}}
        last(k) == CHOOSE i \in 1..Len(inner) :
                      /\ inner[i].k = k
                      /\ \A j \in (i + 1)..Len(inner) : inner[j].k # k
    IN  IF wellFormed
        THEN [ok |-> TRUE, data |-> [k \in keys |-> inner[last(k)].v], message |-> <<>>]
        ELSE [ok |-> FALSE, data |-> <<>>, message |-> SyntaxErrorMessage]

\* the two checks in the opposite order
LanguageChecksSwapped(data) ==
    IF data["defaultLanguage"] # "en" THEN LanguageMessage
    ELSE IF data["defaultAudioLanguage"] # "en-US" THEN AudioLanguageMessage
    ELSE Null

\* lines 41-42: what is thrown once all fields are present (Null: nothing)
LanguageChecks(data) ==
    IF data["defaultAudioLanguage"] # "en-US" THEN AudioLanguageMessage
    ELSE IF data["defaultLanguage"] # "en" THEN LanguageMessage
    ELSE Null

\* required.forEach(k => { if (!(k in data)) throw ... }): Null when none throws
MissingFieldCheck(data) ==
    LET missing == {i \in 1..Len(RequiredFields) : RequiredFields[i] \notin DOMAIN data}
    IN  IF missing = {} THEN Null
        ELSE MissingFieldMessage(
                 RequiredFields[CHOOSE i \in missing : \A j \in missing : i <= j])

\* the braces test with && for ||
BracesMissingBoth(jsonStart, jsonEnd) == jsonStart = -1 /\ jsonEnd = -1

\* line 35: jsonStart === -1 || jsonEnd === -1
BracesMissing(jsonStart, jsonEnd) == jsonStart = -1 \/ jsonEnd = -1

\* the try block of SectionCard: the message of the Error thrown, Null if none
TryMetadata(content) ==
    LET cleanContent == TrimTokens(StripFences(content))
        jsonStart == IndexOf(cleanContent, LBrace)
        jsonEnd == LastIndexOf(cleanContent, RBrace)
    IN  IF BracesMissing(jsonStart, jsonEnd) THEN CouldNotFindMessage
        ELSE LET parsed == JsonParse(Slice(cleanContent, jsonStart, jsonEnd + 1))
             IN  IF ~parsed.ok THEN parsed.message
                 ELSE IF MissingFieldCheck(parsed.data) # Null
                      THEN MissingFieldCheck(parsed.data)
                      ELSE LanguageChecks(parsed.data)

\* isMeta and metaError of SectionCard
SectionCardMeta(sec) ==
    LET isMeta == ToLowerCase(sec.title) = MetadataJsonTitle
        thrown == IF isMeta THEN TryMetadata(sec.content) ELSE Null
    IN  [isMeta |-> isMeta,
         metaError |-> IF thrown = Null THEN Null
                       ELSE IF thrown # <<>> THEN thrown ELSE InvalidJsonMessage]

\* ---------------------------------------------------------------------
\* App
\* ---------------------------------------------------------------------
ErrorPrefix == <<"E", "r", "r", "o", "r", ":">>
UnexpectedErrorMessage == <<"An unexpected error occurred.">>

\* buildPrompt(userScript): the fixed header and format around the script
buildPrompt(userScript) == <<"header", "format", "<<<">> \o userScript \o <<">>>">>

\* JavaScript truthiness of a string or null
Truthy(s) == s # Null /\ s # <<>>

NoOutcome == [kind |-> "none", value |-> <<>>]

IdleApp ==
    /\ rawScript = <<>>
    /\ result = Null
    /\ isLoading = FALSE
    /\ error = Null
    /\ storage = [script |-> Null, result |-> Null]
    /\ inflight = <<>>
    /\ lastEvent = "none"
    /\ lastOutcome = NoOutcome
    /\ cleared = FALSE

\* ---------------------------------------------------------------------
\* Inputs of the parser
\* ---------------------------------------------------------------------
Pieces == {Hashes, <<"#">>, <<" ">>, <<"\t">>, <<"\n">>, <<"\r">>, <<"a">>}

RECURSIVE Flatten(_)
Flatten(ss) == IF ss = <<>> THEN <<>> ELSE Head(ss) \o Flatten(Tail(ss))

PieceSeqs == UNION {[1..n -> Pieces] : n \in 0..MaxLen}

\* texts made of heading lines: "### " title, then the text up to the next
\* heading line
DocTitles == {<<"a">>, <<"A">>, <<"b">>, <<" ", "a", "b", "\t">>}

DocAfters ==
    { <<>>,
      <<"\n", "b">>,
      <<"\r", "\n", "b", "\n">>,
      <<"\n", "b", " ", "#", "#", "#", " ", "a">>,
      <<"\n", "#", "#", "#", "b">>,
      <<"\n", "#", "#", "#", "\t", "b">> }

DocEntries == [title : DocTitles, after : DocAfters]

Docs == UNION {[1..n -> DocEntries] : n \in 0..MaxHeadings}

RECURSIVE RenderFrom(_, _)
RenderFrom(d, i) ==
    IF i > Len(d) THEN <<>>
    ELSE Marker \o d[i].title \o d[i].after
         \o (IF i < Len(d) THEN <<"\n">> ELSE <<>>) \o RenderFrom(d, i + 1)

Render(d) == RenderFrom(d, 1)

\* results for the checklist: headings with or without text after them
CheckDocs ==
    UNION {[1..n -> [title : DocTitles, after : {<<>>, <<"\n", "b">>}]] :
              n \in 0..MaxHeadings}

RequiredNames == {<<"A">>, <<"A", "b">>, <<"B">>}

RequiredLists ==
    {<<n>> : n \in RequiredNames}
    \cup {p \in RequiredNames \X RequiredNames : p[1] # p[2]}

NoSection == [title |-> <<>>, content |-> <<>>]
NoMeta == [isMeta |-> FALSE, metaError |-> Null]

IdleMeta ==
    /\ section = NoSection
    /\ src = <<>>
    /\ meta = NoMeta

InitParser ==
    /\ IdleMeta
    /\ IdleApp
    /\ \E ps \in PieceSeqs : text = Flatten(ps)
    /\ doc = <<>>
    /\ required = <<>>
    /\ sections = <<>>
    /\ checklist = <<>>
    /\ pc = "parse"

InitDoc ==
    /\ IdleMeta
    /\ IdleApp
    /\ doc \in Docs
    /\ text = Render(doc)
    /\ required = <<>>
    /\ sections = <<>>
    /\ checklist = <<>>
    /\ pc = "parse"

InitChecklist ==
    /\ IdleMeta
    /\ IdleApp
    /\ doc = <<>>
    /\ text \in {Null} \cup {Render(d) : d \in CheckDocs}
    /\ required \in RequiredLists
    /\ sections = <<>>
    /\ checklist = <<>>
    /\ pc = "check"

\* a call of parseSections(text)
Parse ==
    /\ pc = "parse"
    /\ text # Null
    /\ sections' = parseSections(text)
    /\ pc' = "parsed"
    /\ UNCHANGED <<text, doc, required, checklist>>
    /\ UNCHANGED mvars
    /\ UNCHANGED avars

\* App renders: the checklist memo is computed from result
ComputeChecklist ==
    /\ pc = "check"
    /\ checklist' = Checklist(text, required)
    /\ pc' = "checked"
    /\ UNCHANGED <<text, doc, required, sections>>
    /\ UNCHANGED mvars
    /\ UNCHANGED avars

NextParser == Parse

NextChecklist == ComputeChecklist

\* ---------------------------------------------------------------------
\* Inputs of the metadata check
\* ---------------------------------------------------------------------
Absent == "(absent)"

\* titles parseSections can hand to SectionCard
CardTitles ==
    { <<"M", "e", "t", "a", "d", "a", "t", "a", " ", "J", "S", "O", "N">>,
      MetadataJsonTitle,
      <<"M", "e", "t", "a", "d", "a", "t", "a">>,
      <<"T", "i", "t", "l", "e">> }

LanguageValues == {"en", "en-US", "fr", Absent}

FieldAssignments ==
    {f \in [FieldNames -> {"x", Absent} \cup LanguageValues] :
        /\ \A k \in {"title", "description", "tags", "categoryId"} : f[k] \in {"x", Absent}
        /\ \A k \in {"defaultLanguage", "defaultAudioLanguage"} : f[k] \in LanguageValues}

NoFields == [k \in FieldNames |-> Absent]

\* the members of the object written from f, separated by commas
RECURSIVE MembersFrom(_, _, _)
MembersFrom(f, i, first) ==
    IF i > Len(RequiredFields) THEN <<>>
    ELSE IF f[RequiredFields[i]] = Absent THEN MembersFrom(f, i + 1, first)
    ELSE (IF first THEN <<>> ELSE <<Comma>>)
         \o <<Member(RequiredFields[i], f[RequiredFields[i]])>>
         \o MembersFrom(f, i + 1, FALSE)

ObjectTokens(f) == <<LBrace>> \o MembersFrom(f, 1, TRUE) \o <<RBrace>>

BodyKinds ==
    {"object", "none", "openOnly", "closeOnly", "reversed", "trailingComma",
     "twoOpen", "textInside"}

BodyTokens(kind, f) ==
    CASE kind = "object" -> ObjectTokens(f)
      [] kind = "none" -> <<Junk>>
      [] kind = "openOnly" -> <<LBrace, Member("title", "x")>>
      [] kind = "closeOnly" -> <<Member("title", "x"), RBrace>>
      [] kind = "reversed" -> <<RBrace, Junk, LBrace>>
      [] kind = "trailingComma" -> <<LBrace, Member("title", "x"), Comma, RBrace>>
      [] kind = "twoOpen" -> <<LBrace>> \o ObjectTokens(f)
      [] kind = "textInside" -> <<LBrace, Junk, RBrace>>

Prefixes == {<<>>, <<Fence, JsonWord, NL>>, <<Junk, NL, Fence, JsonWord, NL>>}
Suffixes == {<<>>, <<NL, Fence>>, <<NL, Fence, NL, Junk>>}

Sources ==
    [kind : {"object"}, fields : FieldAssignments, pre : Prefixes, post : Suffixes]
    \cup [kind : BodyKinds \ {"object"}, fields : {NoFields}, pre : Prefixes,
          post : Suffixes]

ContentOf(s) == s.pre \o BodyTokens(s.kind, s.fields) \o s.post

InitMeta ==
    /\ IdleApp
    /\ text = Null
    /\ doc = <<>>
    /\ required = <<>>
    /\ sections = <<>>
    /\ checklist = <<>>
    /\ pc = "card"
    /\ src \in Sources
    /\ \E t \in CardTitles : section = [title |-> t, content |-> ContentOf(src)]
    /\ meta = NoMeta

\* SectionCard renders section
RenderSectionCard ==
    /\ pc = "card"
    /\ meta' = SectionCardMeta(section)
    /\ pc' = "carded"
    /\ UNCHANGED <<section, src>>
    /\ UNCHANGED <<text, doc, required, sections, checklist>>
    /\ UNCHANGED avars

NextMeta == RenderSectionCard

\* ---------------------------------------------------------------------
\* The App state machine
\* ---------------------------------------------------------------------
Scripts == {<<>>, <<" ">>, <<"a">>, <<"a", " ">>}

\* what analyzeScript can resolve with
Responses ==
    { <<>>,
      <<"o", "k">>,
      <<"E", "r", "r">>,
      <<"E", "r", "r", "o", "r", ":", " ", "x">> }

\* the message of what analyzeScript can reject with ("" : none)
RejectMessages == {<<>>, <<"network">>}

\* what an earlier session can have left in localStorage
StoredScripts == {Null, <<>>, <<"a">>}
StoredResults == {Null, <<"o", "k">>}

\* useState initial values; localStorage as an earlier session left it
InitApp ==
    /\ text = Null
    /\ doc = <<>>
    /\ required = <<>>
    /\ sections = <<>>
    /\ checklist = <<>>
    /\ pc = "app"
    /\ IdleMeta
    /\ rawScript = <<>>
    /\ result = Null
    /\ isLoading = FALSE
    /\ error = Null
    /\ \E s \in StoredScripts, r \in StoredResults :
          storage = [script |-> s, result |-> r]
    /\ inflight = <<>>
    /\ lastEvent = "construct"
    /\ lastOutcome = NoOutcome
    /\ cleared = FALSE

Mounted == lastEvent # "construct"

\* the three effects after the first render, and after the render that the
\* first effect's setRawScript / setResult cause
Mount ==
    /\ ~Mounted
    /\ rawScript' = IF Truthy(storage.script) THEN storage.script ELSE <<>>
    /\ result' = IF Truthy(storage.result) THEN storage.result ELSE Null
    /\ storage' = [storage EXCEPT !.script = rawScript']
    /\ lastEvent' = "mount"
    /\ UNCHANGED <<isLoading, error, inflight, lastOutcome, cleared>>
    /\ UNCHANGED pvars
    /\ UNCHANGED mvars

\* handleSubmit goes on past its first line
SubmitGuard == Trim(rawScript) # <<>> /\ ~isLoading

\* setError(null) left out of handleSubmit
SubmitErrorKept == error

\* setError(null) in handleSubmit
SubmitError == Null

\* handleSubmit, up to the await
SubmitStart ==
    /\ Mounted
    /\ SubmitGuard
    /\ isLoading' = TRUE
    /\ result' = Null
    /\ error' = SubmitError
    /\ inflight' = Append(inflight, [prompt |-> buildPrompt(rawScript), stale |-> FALSE])
    /\ lastEvent' = "submit"
    /\ lastOutcome' = NoOutcome
    /\ UNCHANGED <<rawScript, storage, cleared>>
    /\ UNCHANGED pvars
    /\ UNCHANGED mvars

\* handleSubmit returns at its first line
SubmitIgnored ==
    /\ Mounted
    /\ ~SubmitGuard
    /\ lastEvent' = "submitIgnored"
    /\ UNCHANGED <<rawScript, result, isLoading, error, storage, inflight,
                   lastOutcome, cleared>>
    /\ UNCHANGED pvars
    /\ UNCHANGED mvars

RemoveAt(q, i) == SubSeq(q, 1, i - 1) \o SubSeq(q, i + 1, Len(q))

\* isLoading left as it is when the request fails
LoadingAfterFailureKept == isLoading

\* finally { setIsLoading(false) } on the catch path
LoadingAfterFailure == FALSE

\* the state after `catch`: message is e.message
Fail(message) ==
    /\ error' = IF message # <<>> THEN message ELSE UnexpectedErrorMessage
    /\ result' = Null
    /\ isLoading' = LoadingAfterFailure
    /\ UNCHANGED <<storage, cleared>>

\* handleSubmit after the await: analyzeScript resolved with out
Resolve ==
    \E i \in 1..Len(inflight), out \in Responses :
        /\ inflight' = RemoveAt(inflight, i)
        /\ lastEvent' = "resolve"
        /\ lastOutcome' = [kind |-> "resolve", value |-> out]
        /\ UNCHANGED rawScript
        /\ UNCHANGED pvars
        /\ UNCHANGED mvars
        /\ IF StartsWith(out, ErrorPrefix)
           THEN Fail(out)
           ELSE /\ result' = out
                /\ isLoading' = FALSE
                /\ storage' = IF Truthy(out) THEN [storage EXCEPT !.result = out]
                              ELSE storage
                /\ cleared' = (cleared /\ inflight[i].stale)
                /\ UNCHANGED error

\* handleSubmit after the await: analyzeScript rejected
Reject ==
    \E i \in 1..Len(inflight), message \in RejectMessages :
        /\ inflight' = RemoveAt(inflight, i)
        /\ lastEvent' = "reject"
        /\ lastOutcome' = [kind |-> "reject", value |-> message]
        /\ UNCHANGED rawScript
        /\ UNCHANGED pvars
        /\ UNCHANGED mvars
        /\ Fail(message)

\* clearAll, and the script effect when rawScript changed
ClearAll ==
    /\ Mounted
    /\ rawScript' = <<>>
    /\ result' = Null
    /\ error' = Null
    /\ storage' = [script |-> IF rawScript # <<>> THEN <<>> ELSE Null,
                   result |-> Null]
    /\ inflight' = [i \in 1..Len(inflight) |-> [inflight[i] EXCEPT !.stale = TRUE]]
    /\ lastEvent' = "clear"
    /\ lastOutcome' = NoOutcome
    /\ cleared' = TRUE
    /\ UNCHANGED isLoading
    /\ UNCHANGED pvars
    /\ UNCHANGED mvars

\* onChange of the textarea (disabled while isLoading), and the script effect
Edit ==
    /\ Mounted
    /\ ~isLoading
    /\ \E s \in Scripts \ {rawScript} :
          /\ rawScript' = s
          /\ storage' = [storage EXCEPT !.script = s]
    /\ lastEvent' = "edit"
    /\ UNCHANGED <<result, isLoading, error, inflight, lastOutcome, cleared>>
    /\ UNCHANGED pvars
    /\ UNCHANGED mvars

NextApp ==
    \/ Mount
    \/ SubmitStart
    \/ SubmitIgnored
    \/ Resolve
    \/ Reject
    \/ ClearAll
    \/ Edit

vars ==
    <<text, doc, required, sections, checklist, pc, section, src, meta,
      rawScript, result, isLoading, error, storage, inflight, lastEvent,
      lastOutcome, cleared>>

SpecParser == InitParser /\ [][NextParser]_vars

SpecDoc == InitDoc /\ [][NextParser]_vars

SpecChecklist == InitChecklist /\ [][NextChecklist]_vars

SpecMeta == InitMeta /\ [][NextMeta]_vars

SpecApp == InitApp /\ [][NextApp]_vars

\* every call of analyzeScript settles
FairSpecApp == SpecApp /\ WF_vars(Resolve) /\ WF_vars(Reject)

\* ---------------------------------------------------------------------
\* Properties of parseSections
\* ---------------------------------------------------------------------
IsBlank(s) == \A i \in 1..Len(s) : IsWs(s[i])

IsString(s) == DOMAIN s = 1..Len(s) /\ \A i \in 1..Len(s) : s[i] \in STRING

IsSection(x) ==
    /\ DOMAIN x = {"title", "content"}
    /\ IsString(x.title)
    /\ IsString(x.content)

\* C1: parseSections returns a sequence of sections for every input text, and
\* the empty sequence for every input that is blank after trimming.
C1_ParseTotal ==
    pc = "parsed" =>
        /\ \A k \in 1..Len(sections) : IsSection(sections[k])
        /\ (IsBlank(text) => sections = <<>>)

C1_Witness ==
    /\ pc = "parsed"
    /\ text # <<>>
    /\ IsBlank(text)
    /\ \E i \in 1..Len(text) : text[i] = "\n"
    /\ sections = <<>>

\* C2: a text of n heading lines yields exactly the n sections of those
\* lines, in order, each with the trimmed title and the trimmed text that
\* follows its heading line.
C2_HeadingsInOrder ==
    (pc = "parsed" /\ doc # <<>>) =>
        sections = [i \in 1..Len(doc) |->
                      [title |-> Trim(doc[i].title), content |-> Trim(doc[i].after)]]

\* the lines of s that begin with the heading marker "### "
HeadingStarts(s) ==
    {i \in 1..Len(s) : /\ (i = 1 \/ s[i - 1] = "\n")
                       /\ i + 3 <= Len(s)
                       /\ SubSeq(s, i, i + 3) = Marker}

\* the text that precedes the first heading line
Preamble(s) ==
    IF HeadingStarts(s) = {} THEN s
    ELSE SubSeq(s, 1, (CHOOSE i \in HeadingStarts(s) :
                          \A j \in HeadingStarts(s) : i <= j) - 1)

\* C3: the text is split exactly at the lines beginning with "### ": one
\* section per such line, plus an "Overview" section, first in the result,
\* exactly when non-blank text precedes the first heading.
C3_SplitAtHeadingLines ==
    pc = "parsed" =>
        LET t == NormalizeNewlines(text)
            pre == Trim(Preamble(t))
        IN  /\ Len(sections) = Cardinality(HeadingStarts(t))
                                + (IF pre # <<>> THEN 1 ELSE 0)
            /\ \A k \in 2..Len(sections) : sections[k].title # Overview
            /\ (sections # <<>> /\ sections[1].title = Overview)
                  => (pre # <<>> /\ sections[1].content = pre)

IsPlaceholder(t) == StartsWith(t, SectionPrefix)

\* C4: a section titled by the placeholder at position k of the result is
\* named "Section k".
C4_PlaceholderIsResultIndex ==
    pc = "parsed" =>
        \A k \in 1..Len(sections) :
            IsPlaceholder(sections[k].title) => sections[k].title = Placeholder(k)

\* ---------------------------------------------------------------------
\* Properties of the checklist
\* ---------------------------------------------------------------------
EqualIgnoringCaseAndPadding(a, b) == ToLowerCase(Trim(a)) = ToLowerCase(Trim(b))

MarksMatchTitles ==
    \A i \in 1..Len(checklist) :
        /\ checklist[i].name = required[i]
        /\ checklist[i].ok <=>
              \E k \in 1..Len(parseSections(text)) :
                  EqualIgnoringCaseAndPadding(parseSections(text)[k].title, required[i])

\* C5 as stated: the checklist always has one entry per required name, each
\* marked present iff some parsed title equals the name, ignoring case and
\* surrounding blanks.
C5_ChecklistAlways ==
    pc = "checked" =>
        /\ Len(checklist) = Len(required)
        /\ MarksMatchTitles

\* C5: when result is a non-empty string the checklist has one entry per
\* required name, in the order of the names, marked present iff some parsed
\* title equals the name ignoring case and surrounding blanks; when result is
\* null or empty the checklist has no entries.
C5_ChecklistOfResult ==
    pc = "checked" =>
        IF text = Null \/ text = <<>>
        THEN checklist = <<>>
        ELSE /\ Len(checklist) = Len(required)
             /\ MarksMatchTitles

C5_Witness ==
    /\ pc = "checked"
    /\ Len(checklist) = 2
    /\ checklist[1].ok
    /\ ~checklist[2].ok
    /\ ~Includes([k \in 1..Len(parseSections(text)) |-> parseSections(text)[k].title],
                 required[1])

\* ---------------------------------------------------------------------
\* Properties of the metadata check
\* ---------------------------------------------------------------------
Validated == pc = "carded"

TitledMetadataJson ==
    section.title \in
        { <<"M", "e", "t", "a", "d", "a", "t", "a", " ", "J", "S", "O", "N">>,
          <<"m", "e", "t", "a", "d", "a", "t", "a", " ", "j", "s", "o", "n">> }

LacksABrace ==
    \/ \A i \in 1..Len(section.content) : section.content[i] # LBrace
    \/ \A i \in 1..Len(section.content) : section.content[i] # RBrace

\* success, or a failure with a non-empty reason, for a metadata section;
\* nothing for any other section
OutcomeShape ==
    IF TitledMetadataJson
    THEN meta.isMeta /\ (meta.metaError = Null \/ Len(meta.metaError) > 0)
    ELSE ~meta.isMeta /\ meta.metaError = Null

\* C6 as stated: the reason for a missing brace is "no JSON object found".
C6_NoJsonObjectFound ==
    Validated =>
        /\ OutcomeShape
        /\ (TitledMetadataJson /\ LacksABrace)
              => meta.metaError = <<"no JSON object found">>

\* C6: the metadata check yields success or a failure with a non-empty
\* reason for every content of a section titled "metadata json"; when the
\* content lacks a "{" or a "}" the reason is "Could not find JSON object.";
\* for any other title no outcome is reported.
C6_CouldNotFindJsonObject ==
    Validated =>
        /\ OutcomeShape
        /\ (TitledMetadataJson /\ LacksABrace)
              => meta.metaError = <<"Could not find JSON object.">>

C6_Witness ==
    /\ Validated
    /\ TitledMetadataJson
    /\ src.kind = "openOnly"
    /\ meta.metaError = <<"Could not find JSON object.">>

C7_Order ==
    <<"title", "description", "tags", "defaultLanguage", "defaultAudioLanguage",
      "categoryId">>

\* C7: for a parsed metadata object the first absent field, in the order
\* title, description, tags, defaultLanguage, defaultAudioLanguage,
\* categoryId, is reported; with all six present defaultAudioLanguage is
\* compared with "en-US" first, then defaultLanguage with "en"; the check
\* succeeds iff all are present with exactly those values.
C7_FirstFailingCheck ==
    (Validated /\ TitledMetadataJson /\ src.kind = "object") =>
        LET f == src.fields
            missing == {i \in 1..6 : f[C7_Order[i]] = Absent}
        IN  /\ meta.metaError =
                  IF missing # {}
                  THEN <<"Missing field: ",
                         C7_Order[CHOOSE i \in missing : \A j \in missing : i <= j]>>
                  ELSE IF f["defaultAudioLanguage"] # "en-US"
                       THEN <<"defaultAudioLanguage must be 'en-US'">>
                  ELSE IF f["defaultLanguage"] # "en"
                       THEN <<"defaultLanguage must be 'en'">>
                  ELSE Null
            /\ meta.metaError = Null <=>
                  /\ missing = {}
                  /\ f["defaultAudioLanguage"] = "en-US"
                  /\ f["defaultLanguage"] = "en"

C7_Witness ==
    /\ Validated
    /\ TitledMetadataJson
    /\ src.kind = "object"
    /\ \A k \in FieldNames : src.fields[k] # Absent
    /\ src.fields["defaultAudioLanguage"] = "en"
    /\ src.fields["defaultLanguage"] = "fr"
    /\ meta.metaError = <<"defaultAudioLanguage must be 'en-US'">>

\* ---------------------------------------------------------------------
\* Properties of App
\* ---------------------------------------------------------------------
C8_OneInFlight ==
    /\ Len(inflight) <= 1
    /\ isLoading <=> Len(inflight) = 1

C8_SubmitStep ==
    /\ Len(inflight') > Len(inflight) => (~isLoading /\ Trim(rawScript) # <<>>)
    /\ (isLoading /\ lastEvent' \in {"submit", "submitIgnored"}) =>
          UNCHANGED <<rawScript, result, isLoading, error, storage, inflight>>

\* C8: at most one request is in flight; a request starts only when
\* isLoading is false and the script is non-blank; a submit while isLoading
\* changes no state; isLoading is true exactly while a request is
\* outstanding, and every started request resets it to false.
C8_SingleRequest ==
    /\ []C8_OneInFlight
    /\ [][C8_SubmitStep]_vars
    /\ (isLoading ~> ~isLoading)

C8_Witness ==
    /\ lastEvent = "submitIgnored"
    /\ isLoading
    /\ Len(inflight) = 1
    /\ Trim(rawScript) # <<>>

\* C9: once clearAll has run, result stays null and the stored result stays
\* absent until a handleSubmit started after the clear succeeds.
C9_ClearIsDurable ==
    cleared => (result = Null /\ storage.result = Null)

Succeeded(o) == o.kind = "resolve" /\ ~StartsWith(o.value, ErrorPrefix)

\* C10: result and error are never both non-null; while isLoading both are
\* null; once a request has settled, and until the next clearAll or submit,
\* exactly one is non-null: result iff the response did not start "Error:".
C10_ResultXorError ==
    /\ result = Null \/ error = Null
    /\ isLoading => (result = Null /\ error = Null)
    /\ lastOutcome.kind # "none" =>
          /\ (result # Null) # (error # Null)
          /\ (result # Null) <=> Succeeded(lastOutcome)

C10_Witness ==
    /\ lastOutcome.kind = "resolve"
    /\ StartsWith(lastOutcome.value, ErrorPrefix)
    /\ error = lastOutcome.value
    /\ result = Null
    /\ storage.result # Null

====
